---- MODULE Spec2Model ----
(***************************************************************************)
(* Model of the DNSLookup page component (src/src/pages/DNSLookup.tsx):    *)
(* its React state, the two asynchronous handlers performDNSLookup and     *)
(* findSubdomains, and the input/button/key bindings that invoke them.     *)
(*                                                                         *)
(* Strings the code inspects character by character (the domain inputs,    *)
(* the subdomain names) are sequences of one-character strings; strings    *)
(* the code only stores or shows (IPs, record values, service tags) are    *)
(* plain strings.  The toasts are notifications handed to the use-toast    *)
(* hook, which the component never reads back; they are not part of the    *)
(* state.                                                                  *)
(***************************************************************************)
EXTENDS Integers, Sequences, FiniteSets, TLC

VARIABLES domain, subdomainDomain, loading, results, subdomainResults,
          inflight

vars == <<domain, subdomainDomain, loading, results, subdomainResults,
          inflight>>

(***************************************************************************)
(* Bounds of the model.                                                    *)
(***************************************************************************)
\* Largest number of handler invocations suspended at their await at once.
MaxInFlight == 2
\* Readings of the clock (new Date()) range over 0..MaxTime.
MaxTime == 1
\* Math.random() is modelled as r / RandomSteps with r in 0..RandomSteps-1.
RandomSteps == 6

(***************************************************************************)
(* Characters and strings.                                                 *)
(***************************************************************************)
LowerLetters == <<"a","b","c","d","e","f","g","h","i","j","k","l","m",
                  "n","o","p","q","r","s","t","u","v","w","x","y","z">>
UpperLetters == <<"A","B","C","D","E","F","G","H","I","J","K","L","M",
                  "N","O","P","Q","R","S","T","U","V","W","X","Y","Z">>
Digits == <<"0","1","2","3","4","5","6","7","8","9">>

Range(s) == {s[i] : i \in 1..Len(s)}

IndexOf(s, c) == CHOOSE i \in 1..Len(s) : s[i] = c

\* UTF-16 code unit of a character, the order JavaScript compares strings by.
CharCode(c) ==
    IF c = " " THEN 32
    ELSE IF c = "-" THEN 45
    ELSE IF c = "." THEN 46
    ELSE IF c \in Range(Digits) THEN 47 + IndexOf(Digits, c)
    ELSE IF c \in Range(UpperLetters) THEN 64 + IndexOf(UpperLetters, c)
    ELSE IF c = "_" THEN 95
    ELSE 96 + IndexOf(LowerLetters, c)

\* The values typed into the two input fields (both start empty).
Inputs == { <<" ">>,
            <<"a", ".", "c", "o">>,
            <<"a", "b">> }

RecordTypes == {"A", "AAAA", "MX", "NS", "CNAME", "TXT"}

Times == 0..MaxTime

Randoms == 0..(RandomSteps - 1)

\* null of the two useState<... | null> slots.
Null == [null |-> TRUE]

(***************************************************************************)
(* Pure functions of the handlers.                                         *)
(***************************************************************************)
IsWhitespace(c) == c = " "

RECURSIVE TrimStart(_)
TrimStart(s) ==
    IF s # <<>> /\ IsWhitespace(Head(s)) THEN TrimStart(Tail(s)) ELSE s

RECURSIVE TrimEnd(_)
TrimEnd(s) ==
    IF s # <<>> /\ IsWhitespace(s[Len(s)])
    THEN TrimEnd(SubSeq(s, 1, Len(s) - 1))
    ELSE s

\* String.prototype.trim
Trim(s) == TrimEnd(TrimStart(s))

IsLetter(c) == c \in Range(LowerLetters) \cup Range(UpperLetters)

\* the character class [a-zA-Z0-9.-]
IsHostChar(c) == IsLetter(c) \/ c \in Range(Digits) \/ c = "." \/ c = "-"

\* /^[a-zA-Z0-9.-]+\.[a-zA-Z]{2,}$/.test(s): some "." at position k splits s
\* into a non-empty run of host characters and a run of two or more letters.
DomainRegexTest(s) ==
    \E k \in 1..Len(s) :
        /\ s[k] = "."
        /\ k >= 2
        /\ \A i \in 1..(k - 1) : IsHostChar(s[i])
        /\ Len(s) - k >= 2
        /\ \A i \in (k + 1)..Len(s) : IsLetter(s[i])

\* Math.random() > 0.5, for Math.random() = r / RandomSteps
RandomAboveHalf(r) == 2 * r > RandomSteps

\* Array.prototype.slice(0, end) for a non-negative end
Slice(s, end) == SubSeq(s, 1, IF end < Len(s) THEN end ELSE Len(s))

\* SliceEnd without its "+ 4"
SliceEndNoOffset(r) == (r * 6) \div RandomSteps

\* Math.floor(Math.random() * 6) + 4, for Math.random() = r / RandomSteps
SliceEnd(r) == ((r * 6) \div RandomSteps) + 4

(***************************************************************************)
(* The fabricated DNS records of performDNSLookup.                         *)
(***************************************************************************)
DNSRecord(ty, v, ttl) == [type |-> ty, value |-> v, ttl |-> ttl]

CnameRecord == DNSRecord("CNAME", "alias.example.com", 3600)

\* The records of the five types whose entries the object literal lists.
ListedRecords ==
    [A     |-> << DNSRecord("A", "93.184.216.34", 3600),
                  DNSRecord("A", "93.184.216.35", 3600) >>,
     AAAA  |-> << DNSRecord("AAAA", "2606:2800:220:1:248:1893:25c8:1946", 3600) >>,
     MX    |-> << DNSRecord("MX", "10 mail.example.com", 3600),
                  DNSRecord("MX", "20 mail2.example.com", 3600) >>,
     NS    |-> << DNSRecord("NS", "ns1.example.com", 86400),
                  DNSRecord("NS", "ns2.example.com", 86400) >>,
     TXT   |-> << DNSRecord("TXT", "v=spf1 include:_spf.google.com ~all", 3600),
                  DNSRecord("TXT", "google-site-verification=abc123def456", 3600) >>]

\* MockRecords with the CNAME key created only by the push
MockRecordsCnameOnPush(pushCname) ==
    IF pushCname
    THEN ListedRecords @@ [CNAME |-> << CnameRecord >>]
    ELSE ListedRecords

\* records: { A: [...], ..., CNAME: [], TXT: [...] }, then the conditional
\* records.CNAME.push(...)
MockRecords(pushCname) ==
    ListedRecords @@ [CNAME |-> IF pushCname THEN << CnameRecord >> ELSE << >>]

MockResults(d, t, r) ==
    [domain |-> d, timestamp |-> t, records |-> MockRecords(RandomAboveHalf(r))]

(***************************************************************************)
(* The fabricated subdomains of findSubdomains.                            *)
(***************************************************************************)
\* `${label}.${subdomainDomain}`
Fqdn(label, d) == label \o <<".">> \o d

Sub(label, d, ip, status, services, t) ==
    [subdomain |-> Fqdn(label, d), ip |-> ip, status |-> status,
     services |-> services, lastChecked |-> t]

\* MockSubdomains with the label www listed twice
MockSubdomainsDuplicate(d, t) ==
    << Sub(<<"w","w","w">>, d, "192.168.1.1", "active", <<"HTTP", "HTTPS">>, t),
       Sub(<<"m","a","i","l">>, d, "192.168.1.2", "active", <<"SMTP", "IMAP">>, t),
       Sub(<<"w","w","w">>, d, "192.168.1.3", "inactive", <<"FTP">>, t),
       Sub(<<"a","p","i">>, d, "192.168.1.4", "active", <<"HTTPS", "API">>, t),
       Sub(<<"b","l","o","g">>, d, "192.168.1.5", "active", <<"HTTP">>, t),
       Sub(<<"d","e","v">>, d, "192.168.1.6", "active", <<"HTTP">>, t),
       Sub(<<"s","t","a","g","i","n","g">>, d, "192.168.1.7", "active", <<"HTTPS">>, t),
       Sub(<<"c","d","n">>, d, "192.168.1.8", "active", <<"HTTP", "HTTPS">>, t) >>

\* All eight lastChecked stamps are taken while one array literal is
\* evaluated; they are modelled as one reading t of the clock.
MockSubdomains(d, t) ==
    << Sub(<<"w","w","w">>, d, "192.168.1.1", "active", <<"HTTP", "HTTPS">>, t),
       Sub(<<"m","a","i","l">>, d, "192.168.1.2", "active", <<"SMTP", "IMAP">>, t),
       Sub(<<"f","t","p">>, d, "192.168.1.3", "inactive", <<"FTP">>, t),
       Sub(<<"a","p","i">>, d, "192.168.1.4", "active", <<"HTTPS", "API">>, t),
       Sub(<<"b","l","o","g">>, d, "192.168.1.5", "active", <<"HTTP">>, t),
       Sub(<<"d","e","v">>, d, "192.168.1.6", "active", <<"HTTP">>, t),
       Sub(<<"s","t","a","g","i","n","g">>, d, "192.168.1.7", "active", <<"HTTPS">>, t),
       Sub(<<"c","d","n">>, d, "192.168.1.8", "active", <<"HTTP", "HTTPS">>, t) >>

FoundSubdomains(d, t, r) == Slice(MockSubdomains(d, t), SliceEnd(r))

\* ScanResult counting the candidates instead of the found entries
ScanResultCandidateCount(d, found) ==
    [domain |-> d, subdomains |-> found, totalFound |-> 8]

ScanResult(d, found) ==
    [domain |-> d, subdomains |-> found, totalFound |-> Len(found)]

(***************************************************************************)
(* Invocations suspended at their await: a bag of [kind, domain], domain   *)
(* being the input value the invocation's closure captured.                *)
(***************************************************************************)
Ops == [kind : {"lookup", "scan"}, domain : Inputs]

RECURSIVE SumOver(_, _)
SumOver(f, S) ==
    IF S = {} THEN 0
    ELSE LET x == CHOOSE y \in S : TRUE IN f[x] + SumOver(f, S \ {x})

InFlightCount == SumOver(inflight, Ops)

Suspend(op) == inflight' = [inflight EXCEPT ![op] = @ + 1]

Resume(op) == inflight' = [inflight EXCEPT ![op] = @ - 1]

(***************************************************************************)
(* State after construction.                                               *)
(***************************************************************************)
Init ==
    /\ domain = <<>>
    /\ subdomainDomain = <<>>
    /\ loading = FALSE
    /\ results = Null
    /\ subdomainResults = Null
    /\ inflight = [op \in Ops |-> 0]

(***************************************************************************)
(* Input fields.                                                           *)
(***************************************************************************)
SetDomain(v) ==
    /\ domain' = v
    /\ UNCHANGED <<subdomainDomain, loading, results, subdomainResults,
                   inflight>>

SetSubdomainDomain(v) ==
    /\ subdomainDomain' = v
    /\ UNCHANGED <<domain, loading, results, subdomainResults,
                   inflight>>

(***************************************************************************)
(* performDNSLookup, up to its await.                                      *)
(***************************************************************************)
PerformDNSLookup ==
    IF Trim(domain) = <<>>
    THEN UNCHANGED vars        \* toast "Please enter a domain name"
    ELSE IF ~DomainRegexTest(domain)
    THEN UNCHANGED vars        \* toast "Please enter a valid domain name"
    ELSE /\ InFlightCount < MaxInFlight
         /\ loading' = TRUE
         /\ Suspend([kind |-> "lookup", domain |-> domain])
         /\ UNCHANGED <<domain, subdomainDomain, results, subdomainResults>>

\* <Button onClick={performDNSLookup} disabled={loading}>
ClickLookupDNS == ~loading /\ PerformDNSLookup

\* onKeyPress={(e) => e.key === 'Enter' && performDNSLookup()}
EnterLookupDNS == PerformDNSLookup

\* The continuation after the 2000 ms timer: try body and finally.
LookupComplete(op, r, t) ==
    /\ op.kind = "lookup"
    /\ inflight[op] > 0
    /\ Resume(op)
    /\ results' = MockResults(op.domain, t, r)
    /\ loading' = FALSE
    /\ UNCHANGED <<domain, subdomainDomain, subdomainResults>>

\* The try body throws: catch (a toast) and finally.
LookupFail(op) ==
    /\ op.kind = "lookup"
    /\ inflight[op] > 0
    /\ Resume(op)
    /\ loading' = FALSE
    /\ UNCHANGED <<domain, subdomainDomain, results, subdomainResults>>

(***************************************************************************)
(* findSubdomains, up to its await.                                        *)
(***************************************************************************)
FindSubdomains ==
    IF Trim(subdomainDomain) = <<>>
    THEN UNCHANGED vars        \* toast "Please enter a domain to scan"
    ELSE /\ InFlightCount < MaxInFlight
         /\ loading' = TRUE
         /\ Suspend([kind |-> "scan", domain |-> subdomainDomain])
         /\ UNCHANGED <<domain, subdomainDomain, results, subdomainResults>>

\* <Button onClick={findSubdomains} disabled={loading}>
ClickFindSubdomains == ~loading /\ FindSubdomains

\* onKeyPress={(e) => e.key === 'Enter' && findSubdomains()}
EnterFindSubdomains == FindSubdomains

\* The continuation after the 4000 ms timer: try body and finally.
ScanComplete(op, r, t) ==
    /\ op.kind = "scan"
    /\ inflight[op] > 0
    /\ Resume(op)
    /\ LET foundSubdomains == FoundSubdomains(op.domain, t, r) IN
         subdomainResults' = ScanResult(op.domain, foundSubdomains)
    /\ loading' = FALSE
    /\ UNCHANGED <<domain, subdomainDomain, results>>

\* The try body throws: catch (a toast) and finally.
ScanFail(op) ==
    /\ op.kind = "scan"
    /\ inflight[op] > 0
    /\ Resume(op)
    /\ loading' = FALSE
    /\ UNCHANGED <<domain, subdomainDomain, results, subdomainResults>>

(***************************************************************************)
(* The results section of the render.                                      *)
(***************************************************************************)
\* {subdomainResults ? (scan card) : results ? (DNS cards) : (placeholder)}
Displayed ==
    IF subdomainResults # Null
    THEN [pane |-> "subdomains", data |-> subdomainResults]
    ELSE IF results # Null
    THEN [pane |-> "dns", data |-> results]
    ELSE [pane |-> "ready", data |-> Null]

Next ==
    \/ \E v \in Inputs : SetDomain(v)
    \/ \E v \in Inputs : SetSubdomainDomain(v)
    \/ ClickLookupDNS
    \/ EnterLookupDNS
    \/ ClickFindSubdomains
    \/ EnterFindSubdomains
    \/ \E op \in Ops, r \in Randoms, t \in Times : LookupComplete(op, r, t)
    \/ \E op \in Ops : LookupFail(op)
    \/ \E op \in Ops, r \in Randoms, t \in Times : ScanComplete(op, r, t)
    \/ \E op \in Ops : ScanFail(op)

Spec == Init /\ [][Next]_vars

(***************************************************************************)
(* Properties.                                                             *)
(***************************************************************************)
RECURSIVE StrLeq(_, _)
\* a <= b in the order of JavaScript string comparison
StrLeq(a, b) ==
    IF a = <<>> THEN TRUE
    ELSE IF b = <<>> THEN FALSE
    ELSE IF CharCode(Head(a)) < CharCode(Head(b)) THEN TRUE
    ELSE IF CharCode(Head(a)) > CharCode(Head(b)) THEN FALSE
    ELSE StrLeq(Tail(a), Tail(b))

\* C1: every stored DNS result has a record map whose keys are exactly
\* A, AAAA, MX, NS, CNAME and TXT, each holding a sequence (empty when the
\* type returned no data).
C1_SixRecordTypes ==
    results # Null =>
        /\ DOMAIN results.records = RecordTypes
        /\ \A ty \in RecordTypes :
               \A i \in 1..Len(results.records[ty]) :
                   results.records[ty][i].type = ty

\* A result for a valid domain in which one type (CNAME) returned no data.
C1_Witness ==
    /\ results # Null
    /\ DomainRegexTest(results.domain)
    /\ results.records.CNAME = <<>>
    /\ results.records.A # <<>>

C3_TotalFoundIsLength ==
    subdomainResults # Null =>
        subdomainResults.totalFound = Len(subdomainResults.subdomains)

\* A scan result that is a proper prefix of the candidates.
C3_Witness ==
    /\ subdomainResults # Null
    /\ Len(subdomainResults.subdomains) = 5

\* C4: a subdomain record is active exactly when its services are
\* non-empty; an inactive record has no services.
C4_ActiveIffServices ==
    subdomainResults # Null =>
        \A i \in 1..Len(subdomainResults.subdomains) :
            LET sub == subdomainResults.subdomains[i] IN
                (sub.status = "active") <=> (sub.services # <<>>)

\* C5: the subdomains of every scan result are in ascending lexicographic
\* order of their names.
C5_SortedByFqdn ==
    subdomainResults # Null =>
        \A i \in 1..(Len(subdomainResults.subdomains) - 1) :
            StrLeq(subdomainResults.subdomains[i].subdomain,
                   subdomainResults.subdomains[i + 1].subdomain)

\* C6: a lookup that replaces the result of an earlier lookup of the same
\* domain stores the same record map; only the timestamp may differ.
C6_LookupDeterministic ==
    [][(results # Null /\ results' # Null /\ results'.domain = results.domain)
          => results'.records = results.records]_vars

\* C7: no lookup and no scan is ever in flight for a malformed domain.
C7_MalformedNeverStarted ==
    \A op \in Ops : inflight[op] > 0 => DomainRegexTest(op.domain)

C10_FoundBetween4And9 ==
    subdomainResults # Null =>
        /\ subdomainResults.totalFound >= 4
        /\ subdomainResults.totalFound <= 9

\* A scan result at the lower end of the range, for a domain that is not
\* even a well-formed name.
C10_Witness ==
    /\ subdomainResults # Null
    /\ subdomainResults.totalFound = 4
    /\ ~DomainRegexTest(subdomainResults.domain)

\* C11: the loading flag is set exactly when a lookup or a scan is in
\* flight, and at most one operation is in flight at a time.
C11_LoadingIffOneInFlight ==
    /\ loading <=> (InFlightCount > 0)
    /\ InFlightCount <= 1

\* C12: when a lookup completes and stores its result, the results section
\* shows that DNS result, also when a scan result was stored earlier.
C12_ShowsLatestLookup ==
    [][results' # results
          => Displayed' = [pane |-> "dns", data |-> results']]_vars

====
